---- MODULE Spec2Model ----
(***************************************************************************)
(* WealthWise: the tenant-isolation and role-based authorization layer.    *)
(*                                                                         *)
(* One request is handled on one worker thread in four steps:              *)
(*   process_request   (GroupFilteringMiddleware)                          *)
(*   check_permissions (PermissionRequiredMixin.dispatch, IsAuthenticated, *)
(*                      the view's check_permissions)                      *)
(*   the view's handler (get / post / put / patch / delete)                *)
(*   process_exception / process_response (GroupFilteringMiddleware)       *)
(*                                                                         *)
(* Specifications:                                                         *)
(*   Spec        requests served one after another on one worker, with     *)
(*               every verb and every payload                              *)
(*   SpecConc    read requests of all workers, interleaved                 *)
(*   SpecPerm    CustomUser.has_group_permission applied to every user     *)
(*               shape and permission                                      *)
(*   SpecManager GroupFilteredManager.create called directly in a request  *)
(*               context                                                   *)
(*   SpecStore   the requests of Spec and the manager's create             *)
(*   SpecSerializer one call of post() or put() over every body            *)
(*   SpecRoles   requests on one worker while a user's row is edited       *)
(*   SpecList    read requests over rows that share a creation time        *)
(*   SpecSummary create, list, detail and summary requests                 *)
(*   SpecContext set_current_user and clear called in any order            *)
(*   SpecAccounts registration, invite links and group deletion            *)
(*   SpecRegister registration requests of all workers, interleaved        *)
(***************************************************************************)
EXTENDS Integers, FiniteSets, Sequences, TLC

VARIABLES users, items, next_id, pc, request, ctx, resp, perm_user, perm_arg, perm_result,
          ser_in, ser_out, created_at, groups, next_group, invites, reg

vars == <<users, items, next_id, pc, request, ctx, resp, perm_user, perm_arg, perm_result, ser_in, ser_out,
          created_at, groups, next_group, invites, reg>>

(***************************************************************************)
(* Bounds                                                                  *)
(***************************************************************************)
\* number of item ids the store hands out
MaxItems == 2

(***************************************************************************)
(* Values                                                                  *)
(***************************************************************************)
None == "None"
Absent == "<absent>"
Blank == ""
Anonymous == "AnonymousUser"

Workers == {"w1", "w2"}
SerialWorkers == {"w1"}
Groups == {"G1", "G2"}

ADMIN == "admin"
EDITOR == "editor"
VIEWER == "viewer"
GUEST == "guest"
Roles == {ADMIN, EDITOR, VIEWER}
Permissions == {"read", "create", "update", "delete", "manage_users"}

ITEM_TYPES == {"ASSET", "LIABILITY"}
ASSET_CATEGORIES == {"SAVINGS", "INVESTMENTS", "PROPERTY", "OTHER_ASSETS"}

Methods == {"GET", "POST", "PUT", "PATCH", "DELETE"}
ReadMethods == {"GET"}
Endpoints == {"summary", "collection", "detail"}
ItemIds == 1..MaxItems

(***************************************************************************)
(* wealthUser.models.CustomUser                                            *)
(***************************************************************************)
\* every combination of group, role and system-admin flag a user row can hold
UserShapes == [group : Groups \cup {None}, role : Roles \cup {GUEST}, is_admin : BOOLEAN]

\* the users of the deployment
UserIds == {"alice", "ed", "vic", "bob", "nog", "root", "sam"}

InitUsers ==
    [u \in UserIds |->
        CASE u = "alice" -> [group |-> "G1", role |-> ADMIN,  is_admin |-> FALSE]
          [] u = "ed"    -> [group |-> "G1", role |-> EDITOR, is_admin |-> FALSE]
          [] u = "vic"   -> [group |-> "G1", role |-> VIEWER, is_admin |-> FALSE]
          [] u = "bob"   -> [group |-> "G2", role |-> ADMIN,  is_admin |-> FALSE]
          [] u = "nog"   -> [group |-> None, role |-> ADMIN,  is_admin |-> FALSE]
          [] u = "root"  -> [group |-> None, role |-> VIEWER, is_admin |-> TRUE]
          [] u = "sam"   -> [group |-> "G1", role |-> VIEWER, is_admin |-> TRUE]]

\* a matrix that lets a viewer create
role_permissions_viewer_creates(role) ==
    CASE role = ADMIN  -> {"read", "create", "update", "delete", "manage_users"}
      [] role = EDITOR -> {"read", "create", "update"}
      [] role = VIEWER -> {"read", "create"}
      [] OTHER         -> {}

\* a matrix that lets an editor delete
role_permissions_editor_deletes(role) ==
    CASE role = ADMIN  -> {"read", "create", "update", "delete", "manage_users"}
      [] role = EDITOR -> {"read", "create", "update", "delete"}
      [] role = VIEWER -> {"read"}
      [] OTHER         -> {}

role_permissions(role) ==
    CASE role = ADMIN  -> {"read", "create", "update", "delete", "manage_users"}
      [] role = EDITOR -> {"read", "create", "update"}
      [] role = VIEWER -> {"read"}
      [] OTHER         -> {}

\* the group test placed before the system-admin test
has_group_permission_group_first(user, permission) ==
    IF user.group = None THEN FALSE
    ELSE IF user.is_admin THEN TRUE
    ELSE permission \in role_permissions(user.role)

\* the role lookup without the group test
has_group_permission_role_only(user, permission) ==
    IF user.is_admin THEN TRUE
    ELSE permission \in role_permissions(user.role)

has_group_permission(user, permission) ==
    IF user.is_admin THEN TRUE
    ELSE IF user.group = None THEN FALSE
    ELSE permission \in role_permissions(user.role)

(***************************************************************************)
(* wealthWise.middleware.GroupContext: the thread-local context            *)
(***************************************************************************)
NoUser == [id |-> None, group |-> None, role |-> None, is_admin |-> FALSE]

EmptyContext == [current_user |-> NoUser, current_group |-> None]

\* a loader that answers from the rows as they were when the worker started
load_user_cached(table, principal) ==
    IF principal = Anonymous THEN NoUser
    ELSE [id       |-> principal,
          group    |-> InitUsers[principal].group,
          role     |-> InitUsers[principal].role,
          is_admin |-> InitUsers[principal].is_admin]

\* request.user as the authentication layer loads it: the user's row at the
\* time of the request, or no user for an anonymous request
load_user(table, principal) ==
    IF principal = Anonymous THEN NoUser
    ELSE [id       |-> principal,
          group    |-> table[principal].group,
          role     |-> table[principal].role,
          is_admin |-> table[principal].is_admin]

\* a set_current_user that leaves the group in place when the user is None
set_current_user_keeps_group(c, user) ==
    [current_user  |-> user,
     current_group |-> IF user.id # None THEN user.group ELSE c.current_group]

set_current_user(c, user) ==
    [current_user  |-> user,
     current_group |-> IF user.id # None THEN user.group ELSE None]

get_current_user(c) == c.current_user

\* a current group that is none for a system admin
get_current_group_admin_unscoped(c) ==
    IF c.current_user.is_admin THEN None ELSE c.current_group

get_current_group(c) == c.current_group

has_permission(c, permission) ==
    IF get_current_user(c).id = None THEN FALSE
    ELSE has_group_permission(get_current_user(c), permission)

\* a clear() that leaves the attributes in place
clear_keeps(c) == c

clear(c) == EmptyContext

\* a module-level object in place of threading.local(): one context for all threads
module_global_write(locals, w, c) == [v \in DOMAIN locals |-> c]

\* _thread_locals = threading.local(): a write by thread w is seen by w only
thread_local_write(locals, w, c) == [locals EXCEPT ![w] = c]

(***************************************************************************)
(* netWorth.models.NetWorthItem: the item store, shared by all groups      *)
(***************************************************************************)
NoItem == [group |-> None, item_type |-> None, asset_category |-> None, value |-> 0, name |-> None]

RECURSIVE SumValues(_, _)
SumValues(store, ids) ==
    IF ids = {} THEN 0
    ELSE LET i == CHOOSE x \in ids : TRUE
         IN store[i].value + SumValues(store, ids \ {i})

\* a clean() that tests assets only
clean_assets_only(item) ==
    ~(item.item_type = "ASSET" /\ item.asset_category \in {None, Blank})

\* NetWorthItem.clean
clean(item) ==
    /\ ~(item.item_type = "LIABILITY" /\ item.asset_category \notin {None, Blank})
    /\ ~(item.item_type = "ASSET" /\ item.asset_category \in {None, Blank})

\* Model.full_clean as NetWorthItem.save runs it: the field checks (non-null
\* group, MinValueValidator(0.00), the choices), then clean()
full_clean(item) ==
    /\ item.group # None
    /\ item.name # None
    /\ item.value >= 0
    /\ item.item_type \in ITEM_TYPES
    /\ item.asset_category \in ASSET_CATEGORIES \cup {None}
    /\ clean(item)

(***************************************************************************)
(* wealthWise.middleware.GroupFilteredManager                              *)
(***************************************************************************)
\* a queryset without the group filter
get_queryset_unfiltered(store, current_group) ==
    {i \in DOMAIN store : store[i] # NoItem}

\* the ids of the rows of the queryset
get_queryset(store, current_group) ==
    {i \in DOMAIN store :
        /\ store[i] # NoItem
        /\ (current_group # None => store[i].group = current_group)}

\* NetWorthItem.objects, the manager every view and helper queries through
NetWorthItem_objects(store, c) == get_queryset(store, get_current_group(c))

\* a create that stamps the current group over a group the caller passed
GroupFilteredManager_create_always_stamps(c, kwargs) ==
    [group          |-> IF get_current_group(c) # None
                        THEN get_current_group(c)
                        ELSE IF kwargs.group = Absent THEN None ELSE kwargs.group,
     item_type      |-> kwargs.item_type,
     asset_category |-> kwargs.asset_category,
     value          |-> kwargs.value,
     name           |-> kwargs.name]

\* the row GroupFilteredManager.create hands to Model.save; kwargs.group is
\* Absent when the caller passes no group
GroupFilteredManager_create(c, kwargs) ==
    [group          |-> IF get_current_group(c) # None /\ kwargs.group = Absent
                        THEN get_current_group(c)
                        ELSE IF kwargs.group = Absent THEN None ELSE kwargs.group,
     item_type      |-> kwargs.item_type,
     asset_category |-> kwargs.asset_category,
     value          |-> kwargs.value,
     name           |-> kwargs.name]

\* QuerySet.filter(item_type=...)
filter_item_type(store, ids, item_type) == {i \in ids : store[i].item_type = item_type}

\* a filter that lets the rows of every group through
filter_group_any(store, ids, group) == ids

\* QuerySet.filter(group=...)
filter_group(store, ids, group) == {i \in ids : store[i].group = group}

(***************************************************************************)
(* netWorth.models.NetWorthSummary                                         *)
(***************************************************************************)
get_total(store, c, group, item_type) ==
    SumValues(store, filter_item_type(store, filter_group(store, NetWorthItem_objects(store, c), group), item_type))

get_total_assets(store, c, group) == get_total(store, c, group, "ASSET")

get_total_liabilities(store, c, group) == get_total(store, c, group, "LIABILITY")

get_net_worth(store, c, group) == get_total_assets(store, c, group) - get_total_liabilities(store, c, group)

\* values('asset_category').annotate(total_value=Sum('value'), count=Count('id')):
\* one entry for each category the group's assets have
get_assets_by_category(store, c, group) ==
    LET rows == filter_item_type(store, filter_group(store, NetWorthItem_objects(store, c), group), "ASSET")
        of_category(k) == {i \in rows : store[i].asset_category = k}
    IN {[asset_category |-> k,
         total_value    |-> SumValues(store, of_category(k)),
         count          |-> Cardinality(of_category(k))] : k \in {store[i].asset_category : i \in rows}}

get_summary(store, c, group) ==
    [total_assets       |-> get_total_assets(store, c, group),
     total_liabilities  |-> get_total_liabilities(store, c, group),
     net_worth          |-> get_net_worth(store, c, group),
     assets_by_category |-> get_assets_by_category(store, c, group)]

(***************************************************************************)
(* netWorth.serializers: request bodies and their validation               *)
(***************************************************************************)
DecimalStrings == {"-1.00", "0.00", "1.00", "2.00"}

BodyNames == {Absent, "Cash"}
BodyValues == {Absent, "abc"} \cup DecimalStrings
BodyCategories == {Absent, "SAVINGS", "BOGUS"}
BodyGroups == {Absent} \cup Groups

\* the JSON bodies a client sends; group is a field no serializer declares
Bodies == [name : BodyNames, value : BodyValues, asset_category : BodyCategories, group : BodyGroups]

\* DecimalField.to_internal_value
is_decimal(s) == s \in DecimalStrings

to_decimal(s) ==
    CASE s = "-1.00" -> 0 - 1
      [] s = "0.00"  -> 0
      [] s = "1.00"  -> 1
      [] s = "2.00"  -> 2

\* NetWorthItemSerializer.validate_value
validate_value(value) == ~(value <= 0)

\* the per-field checks of Serializer.is_valid
field_errors(item_type, data, partial) ==
    (IF data.name = Absent /\ ~partial THEN {"name: required"} ELSE {})
    \cup
    (IF data.value = Absent
        THEN (IF partial THEN {} ELSE {"value: required"})
     ELSE IF ~is_decimal(data.value) THEN {"value: invalid"}
     ELSE IF to_decimal(data.value) < 0 THEN {"value: min_value"}
     ELSE IF ~validate_value(to_decimal(data.value)) THEN {"value: Value must be positive."}
     ELSE {})
    \cup
    (IF item_type = "ASSET" /\ data.asset_category \notin {Absent, Blank} \cup ASSET_CATEGORIES
        THEN {"asset_category: invalid_choice"}
     ELSE {})

\* a LiabilitySerializer that declares asset_category and does not reset it
attrs_of_keeps_category(item_type, data) ==
    [given          |-> {f \in {"name", "value"} : data[f] # Absent}
                        \cup {"item_type", "asset_category"},
     name           |-> IF data.name = Absent THEN None ELSE data.name,
     value          |-> IF data.value = Absent THEN 0 ELSE to_decimal(data.value),
     item_type      |-> item_type,
     asset_category |-> IF data.asset_category # Absent THEN data.asset_category ELSE None]

\* a serializer whose Meta.fields lists group as a writable field
attrs_of_declares_group(item_type, data) ==
    [given          |-> {f \in {"name", "value", "group"} : data[f] # Absent}
                        \cup {"item_type", "asset_category"},
     group          |-> IF data.group = Absent THEN None ELSE data.group,
     name           |-> IF data.name = Absent THEN None ELSE data.name,
     value          |-> IF data.value = Absent THEN 0 ELSE to_decimal(data.value),
     item_type      |-> item_type,
     asset_category |-> IF item_type = "ASSET" /\ data.asset_category # Absent
                        THEN data.asset_category ELSE None]

\* the attrs dict that reaches validate(): the declared fields the body gives
\* (Meta.fields lists no group, LiabilitySerializer declares no
\* asset_category), then item_type, and for a liability asset_category = None,
\* set by the subclass
attrs_of(item_type, data) ==
    [given          |-> {f \in {"name", "value"} : data[f] # Absent}
                        \cup {"item_type", "asset_category"},
     group          |-> None,
     name           |-> IF data.name = Absent THEN None ELSE data.name,
     value          |-> IF data.value = Absent THEN 0 ELSE to_decimal(data.value),
     item_type      |-> item_type,
     asset_category |-> IF item_type = "ASSET" /\ data.asset_category # Absent
                        THEN data.asset_category ELSE None]

\* a validate() without the asset branch
validate_liability_only(attrs) ==
    IF attrs.item_type = "LIABILITY" /\ attrs.asset_category \notin {None, Blank}
        THEN {"asset_category: Liabilities cannot have an asset category."}
    ELSE {}

\* NetWorthItemSerializer.validate
validate(attrs) ==
    IF attrs.item_type = "ASSET"
        THEN IF attrs.asset_category \in {None, Blank}
                THEN {"asset_category: Asset category is required for assets."}
             ELSE IF attrs.asset_category \notin ASSET_CATEGORIES
                THEN {"asset_category: Invalid asset category."}
             ELSE {}
    ELSE IF attrs.item_type = "LIABILITY"
        THEN IF attrs.asset_category \notin {None, Blank}
                THEN {"asset_category: Liabilities cannot have an asset category."}
             ELSE {}
    ELSE {}

\* an is_valid() that stops after the field checks
is_valid_skips_validate(item_type, data, partial) ==
    field_errors(item_type, data, partial) = {}

\* Serializer.is_valid: validate() runs only when every field passed
is_valid(item_type, data, partial) ==
    /\ field_errors(item_type, data, partial) = {}
    /\ validate(attrs_of(item_type, data)) = {}

\* ModelSerializer.update: setattr for every validated attr
serializer_update(item, attrs) ==
    [group          |-> IF "group" \in attrs.given THEN attrs.group ELSE item.group,
     item_type      |-> attrs.item_type,
     asset_category |-> attrs.asset_category,
     value          |-> IF "value" \in attrs.given THEN attrs.value ELSE item.value,
     name           |-> IF "name" \in attrs.given THEN attrs.name ELSE item.name]

\* serializer.save(group=...) on create: validated_data plus the keyword
\* arguments of save() go to the manager's create
serializer_create(c, attrs, group) ==
    GroupFilteredManager_create(c,
        [group |-> group, item_type |-> attrs.item_type, asset_category |-> attrs.asset_category,
         value |-> attrs.value, name |-> attrs.name])

(***************************************************************************)
(* Requests and responses                                                  *)
(***************************************************************************)
NoRequest == [user |-> None, method |-> None, endpoint |-> None, item_type |-> None, id |-> 0]

\* netWorth.urls: summary/, assets/, assets/<id>/, liabilities/, liabilities/<id>/
Routes ==
    {[endpoint |-> "summary", item_type |-> None, id |-> 0]}
    \cup {[endpoint |-> "collection", item_type |-> t, id |-> 0] : t \in ITEM_TYPES}
    \cup {[endpoint |-> "detail", item_type |-> t, id |-> i] : t \in ITEM_TYPES, i \in ItemIds}

\* handler_ran: the view's get/post/put/patch/delete body was entered;
\* ids: the items in the body; read_groups / written_groups: the owning groups
\* of the rows the handler's queries fetched / of the rows it created, saved
\* or deleted; caller_group: the group keyword a direct caller of the manager's
\* create passed (Absent when it passed none, and in every view's answer)
NoResponse ==
    [status |-> 0, error |-> "", required_permission |-> None, handler_ran |-> FALSE,
     ids |-> {}, count |-> 0, read_groups |-> {}, written_groups |-> {},
     caller_group |-> Absent, order |-> <<>>,
     total_assets |-> 0, total_liabilities |-> 0, net_worth |-> 0, assets_by_category |-> {}]

Response(status, error, handler_ran) ==
    [NoResponse EXCEPT !.status = status, !.error = error, !.handler_ran = handler_ran]

groups_of(store, ids) == {store[i].group : i \in ids}

PageSizes == {"20", "abc"}

\* int(request.GET.get('page_size', 20)) raises ValueError on a non-number
page_size_parses(page_size) == page_size = "20"

(***************************************************************************)
(* wealthWise.permissions and the views' permission checks                 *)
(***************************************************************************)
\* the class attribute required_permission of each view
required_permission(endpoint) == IF endpoint = "summary" THEN "read" ELSE None

\* a dispatch that skips the permission test
mixin_allows_all(c, endpoint) == TRUE

\* PermissionRequiredMixin.dispatch: TRUE when the view's dispatch goes on
mixin_allows(c, endpoint) ==
    required_permission(endpoint) = None \/ has_permission(c, required_permission(endpoint))

\* permission_classes = [IsAuthenticated]
IsAuthenticated(user) == user # Anonymous

\* a mapping that asks 'read' of every verb
get_permissions_for_method_read(endpoint, method) == "read"

\* get_permissions_for_method of the collection and the detail views
get_permissions_for_method(endpoint, method) ==
    IF endpoint = "collection"
        THEN CASE method = "GET"  -> "read"
               [] method = "POST" -> "create"
               [] OTHER           -> "read"
    ELSE CASE method = "GET"    -> "read"
           [] method = "PUT"    -> "update"
           [] method = "PATCH"  -> "update"
           [] method = "DELETE" -> "delete"
           [] OTHER             -> "read"

\* check_permissions of the collection and the detail views, after
\* super().check_permissions passed; the summary view does not override it
view_allows(c, endpoint, method) ==
    endpoint = "summary" \/ has_permission(c, get_permissions_for_method(endpoint, method))

\* the methods each view class defines; any other verb is answered by
\* http_method_not_allowed
handler_methods(endpoint) ==
    CASE endpoint = "summary"    -> {"GET"}
      [] endpoint = "collection" -> {"GET", "POST"}
      [] endpoint = "detail"     -> {"GET", "PUT", "PATCH", "DELETE"}

\* a lookup over all rows of the table
get_object_all_rows(store, c, id, item_type) ==
    {i \in DOMAIN store : store[i] # NoItem /\ store[i].item_type = item_type /\ i = id}

\* get_object of the detail views: get_object_or_404(NetWorthItem, id=..., item_type=...)
get_object(store, c, id, item_type) ==
    {i \in filter_item_type(store, NetWorthItem_objects(store, c), item_type) : i = id}

\* a delete() that removes nothing
Model_delete_keeps(store, id) == store

\* asset.delete(), liability.delete()
Model_delete(store, id) == [store EXCEPT ![id] = NoItem]

\* the body of post() after the current-group test: the status of the answer
\* and the row saved (500: the exception full_clean raises leaves the view)
post_outcome(c, item_type, data, current_group) ==
    LET row == serializer_create(c, attrs_of(item_type, data), current_group)
    IN IF ~is_valid(item_type, data, FALSE) THEN [status |-> 400, row |-> NoItem]
       ELSE IF ~full_clean(row) THEN [status |-> 500, row |-> NoItem]
       ELSE [status |-> 201, row |-> row]

\* the body of put() after get_object: Serializer(item, data=..., partial=True)
put_outcome(item, item_type, data) ==
    LET row == serializer_update(item, attrs_of(item_type, data))
    IN IF ~is_valid(item_type, data, TRUE) THEN [status |-> 400, row |-> item]
       ELSE IF ~full_clean(row) THEN [status |-> 500, row |-> item]
       ELSE [status |-> 200, row |-> row]

\* one call of a serializer: the view's operation, the serializer class, the
\* body and the stored instance (NoItem on create)
NoSerializerInput ==
    [op |-> None, item_type |-> None, instance |-> NoItem,
     data |-> [name |-> Absent, value |-> Absent, asset_category |-> Absent, group |-> Absent]]

NoOutcome == [status |-> 0, row |-> NoItem]

(***************************************************************************)
(* wealthUser.models: TimeStampedModel, Group, GroupInviteLink             *)
(***************************************************************************)
\* TimeStampedModel.created_at (auto_now_add): a row keeps the time of its
\* insert; now is the time of the save, a row that is gone holds none
auto_now_add(old, new, times, now) ==
    [i \in DOMAIN times |->
        IF new[i] = NoItem THEN 0
        ELSE IF old[i] = NoItem THEN now
        ELSE times[i]]

\* timezone.now() at a save: the clock ticks between two inserts of the
\* requests served here, so the number of the insert stands for its time
timezone_now(insert_number) == insert_number

\* QuerySet.order_by('-created_at'): the sequences the database may return
\* the rows in; no second key orders rows that share created_at
order_by_created_at_desc(ids, times) ==
    {s \in [1..Cardinality(ids) -> ids] :
        /\ \A a, b \in DOMAIN s : a # b => s[a] # s[b]
        /\ \A a, b \in DOMAIN s : a < b => times[s[a]] >= times[s[b]]}

\* the ids Group.objects.create hands out, in order; the first two are the
\* groups of the deployment
GroupIds == <<"G1", "G2", "G3", "G4">>

AllGroups == {GroupIds[k] : k \in DOMAIN GroupIds}

\* number of invite links the table holds
MaxInvites == 2

\* GroupInviteLink.token, one per row
InviteTokens == 1..MaxInvites

NoInvite == [group |-> None, is_used |-> FALSE, created_by |-> None]

\* invite_token=None: the URL carries no token; also the answer of a lookup
\* that found no row
NoToken == 0

\* the usernames registration forms carry
NewUserNames == {"newuser", "inviteduser"}

\* a row that was deleted; its token is not handed out again
GoneInvite == [group |-> None, is_used |-> TRUE, created_by |-> None]

\* the local variables of one call of a wealthUser view: the view, the
\* request's user and method, the form's username, invite_token,
\* group_to_join, user.group, the status of the answer, the group the saved
\* user joined and the token of the invite link created
NoRegistration ==
    [pc |-> "idle", view |-> None, principal |-> None, method |-> None, username |-> None,
     invite_token |-> NoToken, group_to_join |-> None, user_group |-> None,
     status |-> 0, joined |-> None, link |-> NoToken]

\* column defaults that make a new user an admin of the group
CustomUser_defaults_admin == [group |-> None, role |-> ADMIN, is_admin |-> FALSE]

\* the column defaults of CustomUser: group null, role VIEWER, is_admin False
CustomUser_defaults == [group |-> None, role |-> VIEWER, is_admin |-> FALSE]

\* CustomUserCreationForm.save(commit=False): the form carries the username
\* and the password, every other column keeps its default
CustomUserCreationForm_save(username) == CustomUser_defaults

\* a lookup by token alone
invite_lookup_any(inv, token) ==
    IF token \in DOMAIN inv /\ inv[token] \notin {NoInvite, GoneInvite} THEN token ELSE NoToken

\* GroupInviteLink.objects.get(token=invite_token, is_used=False): the row's
\* token, or NoToken for DoesNotExist
invite_lookup(inv, token) ==
    IF token \in DOMAIN inv /\ inv[token] \notin {NoInvite, GoneInvite} /\ ~inv[token].is_used
        THEN token ELSE NoToken

\* on_delete=CASCADE: the rows that refer to group g go with it
on_delete_CASCADE(rows, g, gone) ==
    [k \in DOMAIN rows |-> IF rows[k].group = g THEN gone ELSE rows[k]]

\* a foreign key that is left as it is
on_delete_DO_NOTHING(table, g) == table

\* on_delete=SET_NULL: the users of group g stay, without a group
on_delete_SET_NULL(table, g) ==
    [u \in DOMAIN table |-> IF table[u].group = g THEN [table[u] EXCEPT !.group = None] ELSE table[u]]

\* a test that asks for the manage_users permission as well
invite_allowed_manage_users(user) ==
    user.group # None /\ has_group_permission(user, "manage_users")

\* create_invite_link's test of the caller: request.user.group
invite_allowed(user) == user.group # None

\* the account tables before any registration, invite or group deletion
NoAccountActivity ==
    /\ groups = Groups
    /\ next_group = Cardinality(Groups) + 1
    /\ invites = [t \in InviteTokens |-> NoInvite]
    /\ reg = [w \in Workers |-> NoRegistration]

(***************************************************************************)
(* Initial state                                                           *)
(***************************************************************************)
Init ==
    /\ users = InitUsers
    /\ items = [i \in ItemIds |-> NoItem]
    /\ next_id = 1
    /\ pc = [w \in Workers |-> "idle"]
    /\ request = [w \in Workers |-> NoRequest]
    /\ ctx = [w \in Workers |-> EmptyContext]
    /\ resp = [w \in Workers |-> NoResponse]
    /\ perm_user = [group |-> None, role |-> VIEWER, is_admin |-> FALSE]
    /\ perm_arg = "read"
    /\ perm_result = "unset"
    /\ ser_in = NoSerializerInput
    /\ ser_out = NoOutcome
    /\ created_at = [i \in ItemIds |-> 0]
    /\ NoAccountActivity

(***************************************************************************)
(* GroupFilteringMiddleware                                                *)
(***************************************************************************)
process_request(w) ==
    /\ pc[w] = "idle"
    /\ \E principal \in UserIds \cup {Anonymous} :
         /\ request' = [request EXCEPT ![w] = [NoRequest EXCEPT !.user = principal]]
         /\ LET cleared == thread_local_write(ctx, w, clear(ctx[w]))
            IN ctx' = IF principal # Anonymous
                         THEN thread_local_write(cleared, w,
                                  set_current_user(cleared[w], load_user(users, principal)))
                      ELSE cleared
    /\ pc' = [pc EXCEPT ![w] = "begun"]
    /\ UNCHANGED <<users, items, next_id, resp, perm_user, perm_arg, perm_result, ser_in, ser_out,
                   created_at, groups, next_group, invites, reg>>

process_exception(w) ==
    /\ pc[w] = "raised"
    /\ ctx' = thread_local_write(ctx, w, clear(ctx[w]))
    /\ pc' = [pc EXCEPT ![w] = "failed"]
    /\ resp' = [resp EXCEPT ![w] = Response(500, "Internal Server Error", resp[w].handler_ran)]
    /\ UNCHANGED <<users, items, next_id, request, perm_user, perm_arg, perm_result, ser_in,
                   ser_out, created_at, groups, next_group, invites, reg>>

process_response(w) ==
    /\ pc[w] \in {"responded", "failed"}
    /\ ctx' = thread_local_write(ctx, w, clear(ctx[w]))
    /\ pc' = [pc EXCEPT ![w] = "idle"]
    /\ request' = [request EXCEPT ![w] = NoRequest]
    /\ resp' = [resp EXCEPT ![w] = NoResponse]
    /\ UNCHANGED <<users, items, next_id, perm_user, perm_arg, perm_result, ser_in, ser_out,
                   created_at, groups, next_group, invites, reg>>

(***************************************************************************)
(* The view's dispatch up to the handler                                   *)
(***************************************************************************)
check_permissions(w, methods) ==
    /\ pc[w] = "begun"
    /\ \E method \in methods, route \in Routes :
         LET req == [user |-> request[w].user, method |-> method, endpoint |-> route.endpoint,
                     item_type |-> route.item_type, id |-> route.id]
             c == ctx[w]
         IN /\ request' = [request EXCEPT ![w] = req]
            /\ IF ~mixin_allows(c, req.endpoint)
                  THEN /\ pc' = [pc EXCEPT ![w] = "responded"]
                       /\ resp' = [resp EXCEPT ![w] =
                              [Response(403, "Permission denied", FALSE)
                                 EXCEPT !.required_permission = required_permission(req.endpoint)]]
               ELSE IF ~IsAuthenticated(req.user)
                  THEN /\ pc' = [pc EXCEPT ![w] = "responded"]
                       /\ resp' = [resp EXCEPT ![w] =
                              Response(403, "Authentication credentials were not provided.", FALSE)]
               ELSE IF ~view_allows(c, req.endpoint, req.method)
                  THEN /\ pc' = [pc EXCEPT ![w] = "responded"]
                       /\ resp' = [resp EXCEPT ![w] =
                              [Response(403, "Permission denied. Required permission", FALSE)
                                 EXCEPT !.required_permission =
                                            get_permissions_for_method(req.endpoint, req.method)]]
               ELSE /\ pc' = [pc EXCEPT ![w] = "authorized"]
                    /\ resp' = resp
    /\ UNCHANGED <<users, items, next_id, ctx, perm_user, perm_arg, perm_result, ser_in, ser_out,
                   created_at, groups, next_group, invites, reg>>

http_method_not_allowed(w) ==
    /\ pc[w] = "authorized"
    /\ request[w].method \notin handler_methods(request[w].endpoint)
    /\ pc' = [pc EXCEPT ![w] = "responded"]
    /\ resp' = [resp EXCEPT ![w] = Response(405, "Method not allowed", FALSE)]
    /\ UNCHANGED <<users, items, next_id, request, ctx, perm_user, perm_arg, perm_result, ser_in,
                   ser_out, created_at, groups, next_group, invites, reg>>

(***************************************************************************)
(* netWorth.views: the handlers                                            *)
(***************************************************************************)
NoGroupResponse == Response(403, "User must be assigned to a group", TRUE)

Respond(w, r) ==
    /\ pc' = [pc EXCEPT ![w] = "responded"]
    /\ resp' = [resp EXCEPT ![w] = r]

Raise(w) ==
    /\ pc' = [pc EXCEPT ![w] = "raised"]
    /\ resp' = [resp EXCEPT ![w] = [NoResponse EXCEPT !.handler_ran = TRUE]]

\* NetWorthSummaryAPIView.get
Summary_get(w) ==
    /\ pc[w] = "authorized"
    /\ request[w].endpoint = "summary"
    /\ request[w].method = "GET"
    /\ LET c == ctx[w]
           current_group == get_current_group(c)
           rows == filter_group(items, NetWorthItem_objects(items, c), current_group)
           data == get_summary(items, c, current_group)
       IN IF current_group = None
             THEN Respond(w, NoGroupResponse)
          ELSE Respond(w, [Response(200, "", TRUE) EXCEPT
                              !.read_groups = groups_of(items, rows),
                              !.total_assets = data.total_assets,
                              !.total_liabilities = data.total_liabilities,
                              !.net_worth = data.net_worth,
                              !.assets_by_category = data.assets_by_category])
    /\ UNCHANGED <<users, items, next_id, request, ctx, perm_user, perm_arg, perm_result, ser_in,
                   ser_out, created_at, groups, next_group, invites, reg>>

\* AssetsAPIView.get, LiabilitiesAPIView.get; the page holds the whole
\* queryset (page_size 20 against at most MaxItems rows)
List_get(w) ==
    /\ pc[w] = "authorized"
    /\ request[w].endpoint = "collection"
    /\ request[w].method = "GET"
    /\ \E page_size \in PageSizes :
         LET c == ctx[w]
             current_group == get_current_group(c)
             rows == filter_item_type(items, NetWorthItem_objects(items, c), request[w].item_type)
         IN IF current_group = None
               THEN Respond(w, NoGroupResponse)
            ELSE IF ~page_size_parses(page_size)
               THEN Raise(w)
            ELSE \E order \in order_by_created_at_desc(rows, created_at) :
                   Respond(w, [Response(200, "", TRUE) EXCEPT
                                !.ids = rows,
                                !.order = order,
                                !.count = Cardinality(rows),
                                !.read_groups = groups_of(items, rows)])
    /\ UNCHANGED <<users, items, next_id, request, ctx, perm_user, perm_arg, perm_result, ser_in,
                   ser_out, created_at, groups, next_group, invites, reg>>

\* AssetsAPIView.post, LiabilitiesAPIView.post
Create_post(w) ==
    /\ pc[w] = "authorized"
    /\ request[w].endpoint = "collection"
    /\ request[w].method = "POST"
    /\ LET c == ctx[w]
           current_group == get_current_group(c)
           item_type == request[w].item_type
       IN IF current_group = None
             THEN /\ Respond(w, NoGroupResponse)
                  /\ UNCHANGED <<items, next_id>>
          ELSE \E data \in Bodies :
                 LET out == post_outcome(c, item_type, data, current_group)
                 IN IF out.status = 400
                       THEN /\ Respond(w, Response(400, "ValidationError", TRUE))
                            /\ UNCHANGED <<items, next_id>>
                    ELSE /\ next_id <= MaxItems
                         /\ IF out.status = 500
                               THEN /\ Raise(w)
                                    /\ UNCHANGED <<items, next_id>>
                            ELSE /\ items' = [items EXCEPT ![next_id] = out.row]
                                 /\ next_id' = next_id + 1
                                 /\ Respond(w, [Response(201, "", TRUE) EXCEPT
                                                   !.ids = {next_id},
                                                   !.written_groups = {out.row.group}])
    /\ created_at' = auto_now_add(items, items', created_at, timezone_now(next_id))
    /\ UNCHANGED <<users, request, ctx, perm_user, perm_arg, perm_result, ser_in, ser_out, groups,
                   next_group, invites, reg>>

\* AssetDetailAPIView.get, LiabilityDetailAPIView.get
Detail_get(w) ==
    /\ pc[w] = "authorized"
    /\ request[w].endpoint = "detail"
    /\ request[w].method = "GET"
    /\ LET found == get_object(items, ctx[w], request[w].id, request[w].item_type)
       IN IF found = {}
             THEN Respond(w, Response(404, "Not found", TRUE))
          ELSE Respond(w, [Response(200, "", TRUE) EXCEPT
                              !.ids = found,
                              !.read_groups = groups_of(items, found)])
    /\ UNCHANGED <<users, items, next_id, request, ctx, perm_user, perm_arg, perm_result, ser_in,
                   ser_out, created_at, groups, next_group, invites, reg>>

\* AssetDetailAPIView.put and .patch, LiabilityDetailAPIView.put and .patch
Detail_put(w) ==
    /\ pc[w] = "authorized"
    /\ request[w].endpoint = "detail"
    /\ request[w].method \in {"PUT", "PATCH"}
    /\ LET id == request[w].id
           item_type == request[w].item_type
           found == get_object(items, ctx[w], id, item_type)
       IN IF found = {}
             THEN /\ Respond(w, Response(404, "Not found", TRUE))
                  /\ UNCHANGED items
          ELSE \E data \in Bodies :
                 LET out == put_outcome(items[id], item_type, data)
                 IN IF out.status = 400
                       THEN /\ Respond(w, [Response(400, "ValidationError", TRUE) EXCEPT
                                              !.read_groups = groups_of(items, found)])
                            /\ UNCHANGED items
                    ELSE IF out.status = 500
                       THEN /\ Raise(w)
                            /\ UNCHANGED items
                    ELSE /\ items' = [items EXCEPT ![id] = out.row]
                         /\ Respond(w, [Response(200, "", TRUE) EXCEPT
                                           !.ids = found,
                                           !.read_groups = groups_of(items, found),
                                           !.written_groups = groups_of(items, found)])
    /\ UNCHANGED <<users, next_id, request, ctx, perm_user, perm_arg, perm_result, ser_in, ser_out,
                   created_at, groups, next_group, invites, reg>>

\* AssetDetailAPIView.delete, LiabilityDetailAPIView.delete
Detail_delete(w) ==
    /\ pc[w] = "authorized"
    /\ request[w].endpoint = "detail"
    /\ request[w].method = "DELETE"
    /\ LET id == request[w].id
           found == get_object(items, ctx[w], id, request[w].item_type)
       IN IF found = {}
             THEN /\ Respond(w, Response(404, "Not found", TRUE))
                  /\ UNCHANGED items
          ELSE /\ items' = Model_delete(items, id)
               /\ Respond(w, [Response(204, "", TRUE) EXCEPT
                                 !.read_groups = groups_of(items, found),
                                 !.written_groups = groups_of(items, found)])
    /\ created_at' = auto_now_add(items, items', created_at, timezone_now(next_id))
    /\ UNCHANGED <<users, next_id, request, ctx, perm_user, perm_arg, perm_result, ser_in, ser_out,
                   groups, next_group, invites, reg>>

(***************************************************************************)
(* Specifications                                                          *)
(***************************************************************************)
Next ==
    \E w \in SerialWorkers :
        \/ process_request(w)
        \/ check_permissions(w, Methods)
        \/ http_method_not_allowed(w)
        \/ Summary_get(w)
        \/ List_get(w)
        \/ Create_post(w)
        \/ Detail_get(w)
        \/ Detail_put(w)
        \/ Detail_delete(w)
        \/ process_exception(w)
        \/ process_response(w)

Spec == Init /\ [][Next]_vars

(***************************************************************************)
(* SpecConc: read requests on all workers, over a store that holds one     *)
(* asset of G1 and one liability of G2                                     *)
(***************************************************************************)
SeededItems ==
    [i \in ItemIds |->
        IF i = 1 THEN [group |-> "G1", item_type |-> "ASSET", asset_category |-> "SAVINGS",
                       value |-> 2, name |-> "Cash"]
        ELSE IF i = 2 THEN [group |-> "G2", item_type |-> "LIABILITY", asset_category |-> None,
                            value |-> 1, name |-> "Cash"]
        ELSE NoItem]

InitConc ==
    /\ users = InitUsers
    /\ items = SeededItems
    /\ next_id = 3
    /\ pc = [w \in Workers |-> "idle"]
    /\ request = [w \in Workers |-> NoRequest]
    /\ ctx = [w \in Workers |-> EmptyContext]
    /\ resp = [w \in Workers |-> NoResponse]
    /\ perm_user = [group |-> None, role |-> VIEWER, is_admin |-> FALSE]
    /\ perm_arg = "read"
    /\ perm_result = "unset"
    /\ ser_in = NoSerializerInput
    /\ ser_out = NoOutcome
    /\ created_at = [i \in ItemIds |-> IF SeededItems[i] # NoItem THEN i ELSE 0]
    /\ NoAccountActivity

NextConc ==
    \E w \in Workers :
        \/ process_request(w)
        \/ check_permissions(w, ReadMethods)
        \/ Summary_get(w)
        \/ List_get(w)
        \/ Detail_get(w)
        \/ process_exception(w)
        \/ process_response(w)

SpecConc == InitConc /\ [][NextConc]_vars

(***************************************************************************)
(* SpecPerm: has_group_permission applied to one user and one permission   *)
(***************************************************************************)
InitPerm ==
    /\ users = InitUsers
    /\ items = [i \in ItemIds |-> NoItem]
    /\ next_id = 1
    /\ pc = [w \in Workers |-> "idle"]
    /\ request = [w \in Workers |-> NoRequest]
    /\ ctx = [w \in Workers |-> EmptyContext]
    /\ resp = [w \in Workers |-> NoResponse]
    /\ perm_user \in UserShapes
    /\ perm_arg \in Permissions
    /\ perm_result = "unset"
    /\ ser_in = NoSerializerInput
    /\ ser_out = NoOutcome
    /\ created_at = [i \in ItemIds |-> 0]
    /\ NoAccountActivity

apply_has_group_permission ==
    /\ perm_result = "unset"
    /\ perm_result' = IF has_group_permission(perm_user, perm_arg) THEN "granted" ELSE "denied"
    /\ UNCHANGED <<users, items, next_id, pc, request, ctx, resp, perm_user, perm_arg, ser_in,
                   ser_out, created_at, groups, next_group, invites, reg>>

NextPerm == apply_has_group_permission

SpecPerm == InitPerm /\ [][NextPerm]_vars

(***************************************************************************)
(* SpecManager: the two create paths, the POST views and a direct call    *)
(* of NetWorthItem.objects.create by code that runs in a request context   *)
(***************************************************************************)
ManagerKwargs ==
    [group : BodyGroups, item_type : ITEM_TYPES, asset_category : {None, "SAVINGS"},
     value : {1, 2}, name : {"Cash"}]

Manager_create(w) ==
    /\ pc[w] = "begun"
    /\ \E kwargs \in ManagerKwargs :
         LET row == GroupFilteredManager_create(ctx[w], kwargs)
         IN /\ next_id <= MaxItems
            /\ IF ~full_clean(row)
                  THEN /\ Raise(w)
                       /\ UNCHANGED <<items, next_id>>
               ELSE /\ items' = [items EXCEPT ![next_id] = row]
                    /\ next_id' = next_id + 1
                    /\ Respond(w, [Response(201, "", TRUE) EXCEPT
                                      !.ids = {next_id},
                                      !.written_groups = {row.group},
                                      !.caller_group = kwargs.group])
    /\ created_at' = auto_now_add(items, items', created_at, timezone_now(next_id))
    /\ UNCHANGED <<users, request, ctx, perm_user, perm_arg, perm_result, ser_in, ser_out, groups,
                   next_group, invites, reg>>

CreateMethods == {"POST"}

NextManager ==
    \E w \in SerialWorkers :
        \/ process_request(w)
        \/ Manager_create(w)
        \/ check_permissions(w, CreateMethods)
        \/ http_method_not_allowed(w)
        \/ Create_post(w)
        \/ process_exception(w)
        \/ process_response(w)

SpecManager == Init /\ [][NextManager]_vars

(***************************************************************************)
(* SpecStore: every way a row is written: the requests of Spec and a       *)
(* direct call of the manager's create                                     *)
(***************************************************************************)
NextStore ==
    \/ Next
    \/ \E w \in SerialWorkers : Manager_create(w)

SpecStore == Init /\ [][NextStore]_vars

(***************************************************************************)
(* SpecRoles: read and delete requests on one worker, while the admin site *)
(* changes the group, the role and the system-admin flag of a user         *)
(***************************************************************************)
\* the users whose row the admin site edits
ChangedUsers == {"vic"}

\* CustomUserAdmin's change form, and any other save of a CustomUser row
User_save(u) ==
    /\ \E group \in Groups \cup {None}, role \in Roles, is_admin \in BOOLEAN :
         /\ users[u] # [group |-> group, role |-> role, is_admin |-> is_admin]
         /\ users' = [users EXCEPT ![u] = [group |-> group, role |-> role, is_admin |-> is_admin]]
    /\ UNCHANGED <<items, next_id, pc, request, ctx, resp, perm_user, perm_arg, perm_result, ser_in,
                   ser_out, created_at, groups, next_group, invites, reg>>

RoleMethods == {"GET", "DELETE"}

NextRoles ==
    \/ \E u \in ChangedUsers : User_save(u)
    \/ \E w \in SerialWorkers :
        \/ process_request(w)
        \/ check_permissions(w, RoleMethods)
        \/ http_method_not_allowed(w)
        \/ Summary_get(w)
        \/ List_get(w)
        \/ Detail_get(w)
        \/ Detail_delete(w)
        \/ process_exception(w)
        \/ process_response(w)

SpecRoles == InitConc /\ [][NextRoles]_vars

(***************************************************************************)
(* SpecList: read requests on all workers, over a store that holds two     *)
(* assets of G1 inserted at the same clock reading                         *)
(***************************************************************************)
SameTimeItems ==
    [i \in ItemIds |->
        IF i = 1 THEN [group |-> "G1", item_type |-> "ASSET", asset_category |-> "SAVINGS",
                       value |-> 2, name |-> "Cash"]
        ELSE IF i = 2 THEN [group |-> "G1", item_type |-> "ASSET", asset_category |-> "PROPERTY",
                            value |-> 1, name |-> "Car"]
        ELSE NoItem]

InitList ==
    /\ users = InitUsers
    /\ items = SameTimeItems
    /\ next_id = 3
    /\ pc = [w \in Workers |-> "idle"]
    /\ request = [w \in Workers |-> NoRequest]
    /\ ctx = [w \in Workers |-> EmptyContext]
    /\ resp = [w \in Workers |-> NoResponse]
    /\ perm_user = [group |-> None, role |-> VIEWER, is_admin |-> FALSE]
    /\ perm_arg = "read"
    /\ perm_result = "unset"
    /\ ser_in = NoSerializerInput
    /\ ser_out = NoOutcome
    /\ created_at = [i \in ItemIds |-> IF SameTimeItems[i] # NoItem THEN 1 ELSE 0]
    /\ NoAccountActivity

SpecList == InitList /\ [][NextConc]_vars

(***************************************************************************)
(* SpecSummary: the requests that fill the store and read it back: create, *)
(* list, detail and summary                                                *)
(***************************************************************************)
SummaryMethods == {"GET", "POST"}

NextSummary ==
    \E w \in SerialWorkers :
        \/ process_request(w)
        \/ check_permissions(w, SummaryMethods)
        \/ http_method_not_allowed(w)
        \/ Summary_get(w)
        \/ List_get(w)
        \/ Create_post(w)
        \/ Detail_get(w)
        \/ process_exception(w)
        \/ process_response(w)

SpecSummary == Init /\ [][NextSummary]_vars

(***************************************************************************)
(* SpecAccounts: registration on all workers, invite links and the         *)
(* deletion of groups, over the seeded store                               *)
(***************************************************************************)
Done(w, r) == reg' = [reg EXCEPT ![w] = [r EXCEPT !.pc = "done"]]

\* register_view up to the form: the invite lookup; a GET ends here
register_view_lookup(w) ==
    /\ reg[w].pc = "idle"
    /\ \E method \in {"GET", "POST"}, invite_token \in InviteTokens \cup {NoToken},
          username \in NewUserNames :
         LET r == [NoRegistration EXCEPT !.view = "register_view", !.principal = Anonymous,
                                         !.method = method, !.username = username,
                                         !.invite_token = invite_token]
             link == IF invite_token = NoToken THEN NoToken ELSE invite_lookup(invites, invite_token)
         IN IF invite_token # NoToken /\ link = NoToken
               THEN Done(w, [r EXCEPT !.status = 302])
            ELSE IF method = "GET"
               THEN Done(w, [r EXCEPT !.status = 200,
                                      !.group_to_join = IF link = NoToken THEN None
                                                        ELSE invites[link].group])
            ELSE reg' = [reg EXCEPT ![w] =
                            [r EXCEPT !.pc = "looked_up",
                                      !.group_to_join = IF link = NoToken THEN None
                                                        ELSE invites[link].group]]
    /\ UNCHANGED <<users, items, next_id, pc, request, ctx, resp, perm_user, perm_arg, perm_result,
                   ser_in, ser_out, created_at, groups, next_group, invites>>

\* register_view, the POST branch up to user.save(): the form is validated,
\* then the invite link is saved as used or a new group is created
register_view_post(w) ==
    /\ reg[w].pc = "looked_up"
    /\ LET r == reg[w]
       IN \E form_ok \in BOOLEAN :
            IF ~(form_ok /\ r.username \notin DOMAIN users)
               THEN /\ Done(w, [r EXCEPT !.status = 200])
                    /\ UNCHANGED <<invites, groups, next_group>>
            ELSE IF r.group_to_join # None
               THEN IF invites[r.invite_token] = GoneInvite
                       THEN /\ Done(w, [r EXCEPT !.status = 500])
                            /\ UNCHANGED <<invites, groups, next_group>>
                    ELSE /\ invites' = [invites EXCEPT ![r.invite_token].is_used = TRUE]
                         /\ reg' = [reg EXCEPT ![w] = [r EXCEPT !.pc = "group_set",
                                                                  !.user_group = r.group_to_join]]
                         /\ UNCHANGED <<groups, next_group>>
            ELSE /\ next_group <= Len(GroupIds)
                 /\ groups' = groups \cup {GroupIds[next_group]}
                 /\ next_group' = next_group + 1
                 /\ reg' = [reg EXCEPT ![w] = [r EXCEPT !.pc = "group_set",
                                                          !.user_group = GroupIds[next_group]]]
                 /\ UNCHANGED invites
    /\ UNCHANGED <<users, items, next_id, pc, request, ctx, resp, perm_user, perm_arg, perm_result,
                   ser_in, ser_out, created_at>>

\* register_view, user.save() and the redirect: the insert fails on a
\* username taken meanwhile and on a group deleted meanwhile
register_view_save(w) ==
    /\ reg[w].pc = "group_set"
    /\ LET r == reg[w]
       IN IF r.username \in DOMAIN users \/ r.user_group \notin groups
             THEN /\ Done(w, [r EXCEPT !.status = 500])
                  /\ UNCHANGED users
          ELSE /\ users' = (r.username :> [CustomUserCreationForm_save(r.username)
                                              EXCEPT !.group = r.user_group]) @@ users
               /\ Done(w, [r EXCEPT !.status = 302, !.joined = r.user_group])
    /\ UNCHANGED <<items, next_id, pc, request, ctx, resp, perm_user, perm_arg, perm_result,
                   ser_in, ser_out, created_at, groups, next_group, invites>>

\* the answer of a wealthUser view leaves the worker
view_return(w) ==
    /\ reg[w].pc = "done"
    /\ reg' = [reg EXCEPT ![w] = NoRegistration]
    /\ UNCHANGED <<users, items, next_id, pc, request, ctx, resp, perm_user, perm_arg, perm_result,
                   ser_in, ser_out, created_at, groups, next_group, invites>>

\* the token of the next GroupInviteLink row
free_tokens(inv) == {t \in DOMAIN inv : inv[t] = NoInvite}

\* the callers of create_invite_link: a viewer of G1, the admin of G2, a
\* user without a group, a system admin without a group, and no user
InviteCallers == {"vic", "bob", "nog", "root", Anonymous}

\* create_invite_link, behind login_required
create_invite_link(w) ==
    /\ reg[w].pc = "idle"
    /\ \E principal \in InviteCallers, method \in {"GET", "POST"} :
         LET r == [NoRegistration EXCEPT !.view = "create_invite_link", !.principal = principal,
                                         !.method = method, !.status = 302]
         IN IF principal = Anonymous
               THEN /\ Done(w, r)
                    /\ UNCHANGED invites
            ELSE IF ~invite_allowed(users[principal])
               THEN /\ Done(w, r)
                    /\ UNCHANGED invites
            ELSE IF method = "POST"
               THEN /\ free_tokens(invites) # {}
                    /\ LET t == CHOOSE x \in free_tokens(invites) :
                                    \A y \in free_tokens(invites) : x <= y
                       IN /\ invites' = [invites EXCEPT ![t] =
                                             [group      |-> users[principal].group,
                                              is_used    |-> FALSE,
                                              created_by |-> principal]]
                          /\ Done(w, [r EXCEPT !.link = t])
            ELSE /\ Done(w, r)
                 /\ UNCHANGED invites
    /\ UNCHANGED <<users, items, next_id, pc, request, ctx, resp, perm_user, perm_arg, perm_result,
                   ser_in, ser_out, created_at, groups, next_group>>

\* Group.delete(), as the admin site runs it: the collector follows the
\* foreign keys of NetWorthItem, GroupInviteLink and CustomUser
Group_delete(g) ==
    /\ g \in groups
    /\ groups' = groups \ {g}
    /\ items' = on_delete_CASCADE(items, g, NoItem)
    /\ created_at' = auto_now_add(items, items', created_at, 0)
    /\ invites' = on_delete_CASCADE(invites, g, GoneInvite)
    /\ users' = on_delete_SET_NULL(users, g)
    /\ UNCHANGED <<next_id, pc, request, ctx, resp, perm_user, perm_arg, perm_result,
                   ser_in, ser_out, next_group, reg>>

NextAccounts ==
    \/ \E w \in SerialWorkers :
        \/ register_view_lookup(w)
        \/ register_view_post(w)
        \/ register_view_save(w)
        \/ create_invite_link(w)
        \/ view_return(w)
    \/ \E g \in AllGroups : Group_delete(g)

SpecAccounts == InitConc /\ [][NextAccounts]_vars

(***************************************************************************)
(* SpecRegister: registration requests of all workers, interleaved, over   *)
(* an unused invite link of G1 and a used one of G2                        *)
(***************************************************************************)
SeededInvites ==
    [t \in InviteTokens |->
        IF t = 1 THEN [group |-> "G1", is_used |-> FALSE, created_by |-> "alice"]
        ELSE IF t = 2 THEN [group |-> "G2", is_used |-> TRUE, created_by |-> "bob"]
        ELSE NoInvite]

InitRegister ==
    /\ users = InitUsers
    /\ items = SeededItems
    /\ next_id = 3
    /\ pc = [w \in Workers |-> "idle"]
    /\ request = [w \in Workers |-> NoRequest]
    /\ ctx = [w \in Workers |-> EmptyContext]
    /\ resp = [w \in Workers |-> NoResponse]
    /\ perm_user = [group |-> None, role |-> VIEWER, is_admin |-> FALSE]
    /\ perm_arg = "read"
    /\ perm_result = "unset"
    /\ ser_in = NoSerializerInput
    /\ ser_out = NoOutcome
    /\ created_at = [i \in ItemIds |-> IF SeededItems[i] # NoItem THEN i ELSE 0]
    /\ groups = Groups
    /\ next_group = Cardinality(Groups) + 1
    /\ invites = SeededInvites
    /\ reg = [w \in Workers |-> NoRegistration]

NextRegister ==
    \E w \in Workers :
        \/ register_view_lookup(w)
        \/ register_view_post(w)
        \/ register_view_save(w)
        \/ view_return(w)

SpecRegister == InitRegister /\ [][NextRegister]_vars

(***************************************************************************)
(* SpecContext: GroupContext.set_current_user and GroupContext.clear       *)
(* called in any order on one worker, while user rows are edited           *)
(***************************************************************************)
\* GroupContext.set_current_user(user), user a CustomUser or None
GroupContext_set_current_user(w) ==
    /\ \E principal \in DOMAIN users \cup {Anonymous} :
         ctx' = thread_local_write(ctx, w, set_current_user(ctx[w], load_user(users, principal)))
    /\ UNCHANGED <<users, items, next_id, pc, request, resp, perm_user, perm_arg, perm_result,
                   ser_in, ser_out, created_at, groups, next_group, invites, reg>>

\* GroupContext.clear()
GroupContext_clear(w) ==
    /\ ctx' = thread_local_write(ctx, w, clear(ctx[w]))
    /\ UNCHANGED <<users, items, next_id, pc, request, resp, perm_user, perm_arg, perm_result,
                   ser_in, ser_out, created_at, groups, next_group, invites, reg>>

NextContext ==
    \/ \E u \in ChangedUsers : User_save(u)
    \/ \E w \in SerialWorkers :
        \/ GroupContext_set_current_user(w)
        \/ GroupContext_clear(w)

SpecContext == Init /\ [][NextContext]_vars

(***************************************************************************)
(* SpecSerializer: one call of post() or put() of an asset or liability    *)
(* view by a G1 admin, over every body and every stored instance           *)
(***************************************************************************)
WideNames == {Absent, "Cash", "Car"}

WideCategories == {Absent, Blank, "BOGUS"} \cup ASSET_CATEGORIES

WideBodies ==
    [name : WideNames, value : BodyValues, asset_category : WideCategories, group : {Absent, "G2"}]

StoredInstances ==
    {[group |-> "G1", item_type |-> "ASSET", asset_category |-> "SAVINGS", value |-> 1, name |-> "Cash"],
     [group |-> "G1", item_type |-> "ASSET", asset_category |-> "PROPERTY", value |-> 2, name |-> "Cash"],
     [group |-> "G1", item_type |-> "LIABILITY", asset_category |-> None, value |-> 1, name |-> "Cash"]}

SerializerInputs ==
    {[op |-> "create", item_type |-> t, instance |-> NoItem, data |-> d] :
        t \in ITEM_TYPES, d \in WideBodies}
    \cup {[op |-> "update", item_type |-> r.item_type, instance |-> r, data |-> d] :
        r \in StoredInstances, d \in WideBodies}

\* the context of a request of alice, admin of G1
G1Context == set_current_user(EmptyContext, load_user(InitUsers, "alice"))

InitSerializer ==
    /\ users = InitUsers
    /\ items = [i \in ItemIds |-> NoItem]
    /\ next_id = 1
    /\ pc = [w \in Workers |-> "idle"]
    /\ request = [w \in Workers |-> NoRequest]
    /\ ctx = [w \in Workers |-> EmptyContext]
    /\ resp = [w \in Workers |-> NoResponse]
    /\ perm_user = [group |-> None, role |-> VIEWER, is_admin |-> FALSE]
    /\ perm_arg = "read"
    /\ perm_result = "unset"
    /\ ser_in \in SerializerInputs
    /\ ser_out = NoOutcome
    /\ created_at = [i \in ItemIds |-> 0]
    /\ NoAccountActivity

Serializer_post ==
    /\ ser_out = NoOutcome
    /\ ser_in.op = "create"
    /\ ser_out' = post_outcome(G1Context, ser_in.item_type, ser_in.data, get_current_group(G1Context))
    /\ UNCHANGED <<users, items, next_id, pc, request, ctx, resp, perm_user, perm_arg, perm_result,
                   ser_in, created_at, groups, next_group, invites, reg>>

Serializer_put ==
    /\ ser_out = NoOutcome
    /\ ser_in.op = "update"
    /\ ser_out' = put_outcome(ser_in.instance, ser_in.item_type, ser_in.data)
    /\ UNCHANGED <<users, items, next_id, pc, request, ctx, resp, perm_user, perm_arg, perm_result,
                   ser_in, created_at, groups, next_group, invites, reg>>

NextSerializer == Serializer_post \/ Serializer_put

SpecSerializer == InitSerializer /\ [][NextSerializer]_vars

(***************************************************************************)
(* Properties                                                              *)
(***************************************************************************)
InFlight == {"begun", "authorized", "raised", "responded"}

\* the items group g owns
owned(g) == {i \in ItemIds : items[i] # NoItem /\ items[i].group = g}

owned_of_type(g, t) == {i \in owned(g) : items[i].item_type = t}

\* C1: tenant isolation. The answer to a request bound to group g names,
\* counts and sums only items of g, its queries fetched and its writes touched
\* only rows of g, and a get, update or delete aimed at the id of another
\* group's item is answered 404
C1_Answer ==
    \A w \in Workers :
        LET g == ctx[w].current_group
            q == request[w]
            r == resp[w]
        IN (pc[w] = "responded" /\ g # None) =>
             /\ r.read_groups \subseteq {g}
             /\ r.written_groups \subseteq {g}
             /\ \A i \in r.ids : items[i].group = g
             /\ (q.endpoint = "collection" /\ q.method = "GET" /\ r.status = 200) =>
                    /\ r.ids = owned_of_type(g, q.item_type)
                    /\ r.count = Cardinality(owned_of_type(g, q.item_type))
             /\ (q.endpoint = "summary" /\ r.status = 200) =>
                    /\ r.total_assets = SumValues(items, owned_of_type(g, "ASSET"))
                    /\ r.total_liabilities = SumValues(items, owned_of_type(g, "LIABILITY"))
                    /\ r.net_worth = r.total_assets - r.total_liabilities
             /\ (q.endpoint = "detail" /\ r.handler_ran
                   /\ items[q.id] # NoItem /\ items[q.id].group # g) => r.status = 404

\* C1, the step: a step of a request bound to group g leaves every item of
\* every other group as it was
C1_Step ==
    \A w \in Workers :
        (pc'[w] # pc[w] /\ ctx[w].current_group # None) =>
            \A i \in ItemIds :
                (items[i] # NoItem /\ items[i].group # ctx[w].current_group) => items'[i] = items[i]

\* C1: tenant isolation, the answer and the step together: a request whose
\* context is bound to G1 never returns, counts, updates or deletes an item
\* of G2, and get, update and delete on a G2 id end in 404, the item unchanged
C1_TenantIsolation == [][C1_Step /\ C1_Answer']_vars

\* a G1 request aimed a DELETE at an item of G2 and was answered 404
C1_Witness ==
    \E w \in Workers :
        /\ pc[w] = "responded"
        /\ ctx[w].current_group = "G1"
        /\ request[w].endpoint = "detail"
        /\ request[w].method = "DELETE"
        /\ items[request[w].id].group = "G2"
        /\ items[request[w].id].item_type = request[w].item_type
        /\ resp[w].status = 404

\* C2: a request whose context has no current group is never answered with
\* success, and no row of any group is read, changed or deleted by it
C2_NoGroupNoDataOperation ==
    \A w \in Workers :
        (pc[w] = "responded" /\ ctx[w].current_group = None) =>
            /\ resp[w].status \notin {200, 201, 204}
            /\ resp[w].read_groups = {}
            /\ resp[w].written_groups = {}

\* C3 as claimed: after every successful create in a context that has a
\* current group, on the views and on the manager, the new item's group is
\* that current group
C3_CreateStampsCurrentGroup ==
    \A w \in Workers :
        (pc[w] = "responded" /\ resp[w].status = 201 /\ ctx[w].current_group # None) =>
            \A i \in resp[w].ids : items[i].group = ctx[w].current_group

\* C3 amended: a create through the views stores the current group of the
\* context; the manager's create stores the current group when its caller
\* passed no group, and the group its caller passed otherwise
C3_CreateGroup ==
    \A w \in Workers :
        (pc[w] = "responded" /\ resp[w].status = 201) =>
            \A i \in resp[w].ids :
                /\ items[i].group # None
                /\ items[i].group = IF resp[w].caller_group = Absent
                                       THEN ctx[w].current_group
                                    ELSE resp[w].caller_group

\* the manager's create, called in a G1 context with group G2, succeeded
C3_Witness ==
    \E w \in Workers :
        /\ pc[w] = "responded"
        /\ resp[w].status = 201
        /\ ctx[w].current_group = "G1"
        /\ resp[w].caller_group = "G2"

\* C4: between requests, and after an exception, the worker's context is
\* empty; a request with no principal sees no current user, no current group
\* and no permission, whatever request the worker handled before
C4_ContextNonLeak ==
    \A w \in Workers :
        /\ pc[w] \in {"idle", "failed"} => ctx[w] = EmptyContext
        /\ (pc[w] \in InFlight /\ request[w].user = Anonymous) =>
               /\ get_current_user(ctx[w]) = NoUser
               /\ get_current_group(ctx[w]) = None

\* a request with no principal has begun on a worker that served a create of
\* a G1 user before
C4_Witness ==
    \E w \in Workers :
        /\ pc[w] = "begun"
        /\ request[w].user = Anonymous
        /\ \E i \in ItemIds : items[i] # NoItem /\ items[i].group = "G1"

\* C5, the state: an in-flight request sees the user and the group its own
\* process_request set
C5_Own ==
    \A w \in Workers :
        pc[w] \in InFlight =>
            LET p == request[w].user
            IN /\ ctx[w].current_user.id = IF p = Anonymous THEN None ELSE p
               /\ ctx[w].current_group = IF p = Anonymous THEN None ELSE users[p].group

\* C5, the step: a step of one worker leaves the context of every other
\* worker as it was
C5_Step ==
    \A w, v \in Workers : (v # w /\ pc'[w] # pc[w]) => ctx'[v] = ctx[v]

\* C5: under every interleaving each request reads only the user and group
\* its own begin set, and no step of one request changes another's context
C5_ContextPerRequest == [][C5_Step /\ C5_Own']_vars

\* two requests of different groups are in flight at once
C5_Witness ==
    /\ pc["w1"] = "authorized"
    /\ pc["w2"] = "authorized"
    /\ ctx["w1"].current_group = "G1"
    /\ ctx["w2"].current_group = "G2"

\* C6: a user with the system-admin flag holds every permission, whatever
\* the role and with or without a group
C6_SystemAdminAllPermissions ==
    (perm_result # "unset" /\ perm_user.is_admin) => perm_result = "granted"

\* a system admin with no group was granted manage_users
C6_Witness ==
    /\ perm_result = "granted"
    /\ perm_user.is_admin
    /\ perm_user.group = None
    /\ perm_user.role = VIEWER
    /\ perm_arg = "manage_users"

\* the principal holds no standing: no user, or a user that is not a system
\* admin and has no group
NoStanding(p) == p = Anonymous \/ (~users[p].is_admin /\ users[p].group = None)

\* C7: a principal without standing holds no permission, its requests never
\* pass the permission check, and each is answered 403 without the handler
\* running or a row being read or written
C7_NoStandingNoAccess ==
    /\ \A u \in UserShapes, p \in Permissions :
           (~u.is_admin /\ u.group = None) => ~has_group_permission(u, p)
    /\ \A p \in Permissions : ~has_permission(EmptyContext, p)
    /\ \A w \in Workers :
           (pc[w] \in InFlight \cup {"failed"} /\ NoStanding(request[w].user)) =>
               /\ \A p \in Permissions : ~has_permission(ctx[w], p)
               /\ pc[w] \in {"begun", "responded"}
               /\ pc[w] = "responded" =>
                      /\ resp[w].status = 403
                      /\ ~resp[w].handler_ran
                      /\ resp[w].ids = {}
                      /\ resp[w].read_groups = {}
                      /\ resp[w].written_groups = {}

\* a user with role admin and no group was answered 403 on a detail DELETE
C7_Witness ==
    \E w \in Workers :
        /\ pc[w] = "responded"
        /\ request[w].user = "nog"
        /\ request[w].endpoint = "detail"
        /\ request[w].method = "DELETE"
        /\ resp[w].status = 403

\* C8: for a user with a group and without the system-admin flag the
\* permission follows the role matrix: admin all five, editor read, create
\* and update, viewer read, any other role none
C8_RoleMatrix ==
    (perm_result # "unset" /\ ~perm_user.is_admin /\ perm_user.group # None) =>
        (perm_result = "granted" <=>
            \/ perm_user.role = "admin"
                 /\ perm_arg \in {"read", "create", "update", "delete", "manage_users"}
            \/ perm_user.role = "editor" /\ perm_arg \in {"read", "create", "update"}
            \/ perm_user.role = "viewer" /\ perm_arg = "read")

\* a user of a group with a role outside the three was denied read
C8_Witness ==
    /\ perm_result = "denied"
    /\ ~perm_user.is_admin
    /\ perm_user.group = "G1"
    /\ perm_user.role = GUEST
    /\ perm_arg = "read"

\* the permission the verb asks for
verb_permission(method) ==
    CASE method = "GET"    -> "read"
      [] method = "POST"   -> "create"
      [] method = "PUT"    -> "update"
      [] method = "PATCH"  -> "update"
      [] method = "DELETE" -> "delete"

\* C9: on the asset and liability endpoints a handler body ran only for a
\* user holding the permission of the verb (read for GET, create for POST,
\* update for PUT and PATCH, delete for DELETE), and a denial names it
C9_VerbPermission ==
    \A w \in Workers :
        LET q == request[w]
            r == resp[w]
        IN (pc[w] \in {"raised", "responded"} /\ q.endpoint \in {"collection", "detail"}
              /\ q.method \in handler_methods(q.endpoint)) =>
             /\ r.handler_ran =>
                    /\ q.user # Anonymous
                    /\ has_group_permission(users[q.user], verb_permission(q.method))
             /\ (r.status = 403 /\ r.required_permission # None) =>
                    /\ r.required_permission = verb_permission(q.method)
                    /\ ~has_group_permission(users[q.user], verb_permission(q.method))

\* an editor's PATCH ran and was answered 200
C9_Witness ==
    \E w \in Workers :
        /\ pc[w] = "responded"
        /\ request[w].user = "ed"
        /\ request[w].method = "PATCH"
        /\ resp[w].handler_ran
        /\ resp[w].status = 200

\* the permission a request must hold before its handler may run
needed_permission(q) ==
    IF q.endpoint = "summary" THEN "read"
    ELSE get_permissions_for_method(q.endpoint, q.method)

\* C10: a request passes from begun to authorized only by a permission check
\* that allowed it, and a handler runs, and the store changes, only in a step
\* of an authorized request
C10_Step ==
    /\ \A w \in Workers :
           (pc'[w] = "authorized" /\ pc[w] # "authorized") =>
               /\ pc[w] = "begun"
               /\ request'[w].user # Anonymous
               /\ has_permission(ctx[w], needed_permission(request'[w]))
    /\ \A w \in Workers :
           (resp'[w].handler_ran /\ ~resp[w].handler_ran) => pc[w] = "authorized"
    /\ items' # items => \E w \in Workers : pc[w] = "authorized" /\ pc'[w] # "authorized"

\* C10: within one request the permission check precedes the data operation
C10_CheckPrecedesData == [][C10_Step]_vars

\* a delete was performed and answered 204
C10_Witness ==
    \E w \in Workers :
        /\ pc[w] = "responded"
        /\ request[w].method = "DELETE"
        /\ resp[w].handler_ran
        /\ resp[w].written_groups # {}
        /\ resp[w].status = 204

\* a call of post() or put() has returned
Returned == ser_out # NoOutcome

\* C13: a PUT or PATCH on an asset whose body holds only a valid value is
\* answered 200, stores the value and leaves every other field as it was
C13_ValueOnlyUpdate ==
    (Returned /\ ser_in.op = "update" /\ ser_in.item_type = "ASSET"
       /\ ser_in.data.name = Absent /\ ser_in.data.asset_category = Absent
       /\ ser_in.data.value \in {"1.00", "2.00"}) =>
        /\ ser_out.status = 200
        /\ ser_out.row = [ser_in.instance EXCEPT !.value = IF ser_in.data.value = "1.00" THEN 1 ELSE 2]

\* C14: an update of an asset whose body sets asset_category to a value
\* outside the enum is answered 400 and the item keeps every field, whatever
\* name and value the body carries
C14_InvalidCategoryRejectsUpdate ==
    (Returned /\ ser_in.op = "update" /\ ser_in.item_type = "ASSET"
       /\ ser_in.data.asset_category \notin
              {Absent, "SAVINGS", "INVESTMENTS", "PROPERTY", "OTHER_ASSETS"}) =>
        /\ ser_out.status = 400
        /\ ser_out.row = ser_in.instance

\* an update with a valid name and value and the category BOGUS was answered 400
C14_Witness ==
    /\ Returned
    /\ ser_in.op = "update"
    /\ ser_in.item_type = "ASSET"
    /\ ser_in.data.asset_category = "BOGUS"
    /\ ser_in.data.name = "Car"
    /\ ser_in.data.value = "2.00"
    /\ ser_out.status = 400

without_category(data) == [data EXCEPT !.asset_category = Absent]

C16_AssetCategoryOnCreate ==
    (Returned /\ ser_in.op = "create" /\ ser_in.item_type = "ASSET") =>
        LET cat == ser_in.data.asset_category
            in_enum == cat \in {"SAVINGS", "INVESTMENTS", "PROPERTY", "OTHER_ASSETS"}
        IN /\ ~in_enum => (ser_out.status = 400 /\ ser_out.row = NoItem)
           /\ (in_enum /\ ser_in.data.name # Absent /\ ser_in.data.value \in {"1.00", "2.00"}) =>
                  (ser_out.status = 201 /\ ser_out.row.asset_category = cat)

\* a create of an asset with a valid name and value and no category was
\* answered 400
C16_Witness ==
    /\ Returned
    /\ ser_in.op = "create"
    /\ ser_in.item_type = "ASSET"
    /\ ser_in.data.asset_category = Absent
    /\ ser_in.data.name = "Cash"
    /\ ser_in.data.value = "1.00"
    /\ ser_out.status = 400

\* the body is acceptable but for its value
ValueDecides ==
    /\ ser_in.data.value # Absent
    /\ ser_in.op = "create" => ser_in.data.name # Absent
    /\ ser_in.item_type = "ASSET" => ser_in.data.asset_category \in ASSET_CATEGORIES

\* C17: on create and on update a value is accepted exactly when it is a
\* decimal greater than or equal to zero, and it is stored as given
C17_ValueAcceptedIffNonNegative ==
    (Returned /\ ValueDecides) =>
        LET v == ser_in.data.value
        IN /\ ser_out.status \in {200, 201} <=> v \in {"0.00", "1.00", "2.00"}
           /\ v \notin {"0.00", "1.00", "2.00"} => ser_out.status = 400
           /\ ser_out.status \in {200, 201} =>
                  ser_out.row.value = CASE v = "0.00" -> 0 [] v = "1.00" -> 1 [] v = "2.00" -> 2

\* the store as group g sees it: the rows of every other group removed
visible(store, g) == [i \in DOMAIN store |-> IF store[i].group = g THEN store[i] ELSE NoItem]

DetailMethods == {"GET", "PUT", "PATCH", "DELETE"}

\* C11, the step: a get, update or delete of a request bound to group g whose
\* id is that of another group's item gets the very answer an id of no item
\* gets, 404 "Not found" and nothing else, the store unchanged; and the lookup
\* finds the same in the store and in the store without the other groups' rows
C11_Step ==
    \A w \in Workers :
        (pc[w] = "authorized" /\ pc'[w] # "authorized" /\ request[w].endpoint = "detail"
           /\ request[w].method \in DetailMethods /\ ctx[w].current_group # None) =>
            LET g == ctx[w].current_group
                id == request[w].id
                t == request[w].item_type
            IN /\ (items[id] = NoItem \/ items[id].group # g) =>
                      /\ pc'[w] = "responded"
                      /\ resp'[w] = [NoResponse EXCEPT !.status = 404, !.error = "Not found",
                                                       !.handler_ran = TRUE]
                      /\ items' = items
               /\ get_object(items, ctx[w], id, t) = get_object(visible(items, g), ctx[w], id, t)

\* C11: to a caller of group G1 an id of another group's item and an id of
\* no item are indistinguishable: both end in the same 404
C11_NotFoundIndistinguishable == [][C11_Step]_vars

\* a G1 request asked for an item of G2 by id and was answered 404
C11_Witness ==
    \E w \in Workers :
        /\ pc[w] = "responded"
        /\ ctx[w].current_group = "G1"
        /\ request[w].endpoint = "detail"
        /\ request[w].method = "GET"
        /\ items[request[w].id].group = "G2"
        /\ items[request[w].id].item_type = request[w].item_type
        /\ resp[w].status = 404

\* C12: every stored item is an asset with a category of the enum or a
\* liability with no category
C12_CategoryInvariant ==
    \A i \in ItemIds :
        items[i] # NoItem =>
            \/ /\ items[i].item_type = "ASSET"
               /\ items[i].asset_category \in {"SAVINGS", "INVESTMENTS", "PROPERTY", "OTHER_ASSETS"}
            \/ /\ items[i].item_type = "LIABILITY"
               /\ items[i].asset_category = None

\* an update was answered 200 while the store holds an asset and a liability
C12_Witness ==
    \E w \in Workers :
        /\ pc[w] = "responded"
        /\ request[w].method = "PUT"
        /\ resp[w].status = 200
        /\ \E i, j \in ItemIds : items[i].item_type = "ASSET" /\ items[j].item_type = "LIABILITY"

\* C18, the state: a delete answered 204 removed the row; a list names only
\* rows that exist and a summary sums only rows that exist
C18_State ==
    \A w \in Workers :
        LET q == request[w]
            r == resp[w]
            g == ctx[w].current_group
        IN pc[w] = "responded" =>
             /\ (q.method = "DELETE" /\ r.status = 204) => items[q.id] = NoItem
             /\ (q.endpoint = "collection" /\ q.method = "GET" /\ r.status = 200) =>
                    \A i \in r.ids : items[i] # NoItem
             /\ (q.endpoint = "summary" /\ r.status = 200) =>
                    /\ r.total_assets = SumValues(items, owned_of_type(g, "ASSET"))
                    /\ r.total_liabilities = SumValues(items, owned_of_type(g, "LIABILITY"))

\* C18, the step: the id of a deleted item is never given to a row again, and
\* a get, update or delete of it, by any user, is answered 404
C18_Step ==
    /\ next_id' >= next_id
    /\ \A i \in ItemIds : (i < next_id /\ items[i] = NoItem) => items'[i] = NoItem
    /\ \A w \in Workers :
           (pc[w] = "authorized" /\ pc'[w] # "authorized" /\ request[w].endpoint = "detail"
              /\ request[w].method \in DetailMethods /\ items[request[w].id] = NoItem) =>
               (pc'[w] = "responded" /\ resp'[w].status = 404)

\* C18: after a delete answered 204 every later get, update or delete of the
\* id ends in 404 and the item is in no list and no total again
C18_DeletedStaysDeleted == [][C18_Step /\ C18_State']_vars

\* a system admin without group asked for a deleted item and was answered 404
C18_Witness ==
    \E w \in Workers :
        /\ pc[w] = "responded"
        /\ request[w].user = "root"
        /\ request[w].endpoint = "detail"
        /\ request[w].method = "GET"
        /\ request[w].id < next_id
        /\ items[request[w].id] = NoItem
        /\ resp[w].status = 404

\* C19: an authenticated user without group that is no system admin is
\* answered 403 'Group membership required'
C19_GroupRequiredFirst ==
    \A w \in Workers :
        (pc[w] = "responded" /\ request[w].user \in UserIds
           /\ ~users[request[w].user].is_admin /\ users[request[w].user].group = None) =>
            /\ resp[w].status = 403
            /\ resp[w].error = "Group membership required"

\* the requests the tests of the role matrix expect to be denied: a viewer's
\* POST, PUT, PATCH and DELETE and an editor's DELETE, each on a route that
\* defines the verb
DeniedWrite(q) ==
    /\ q.user \in {"vic", "ed"}
    /\ q.endpoint \in {"collection", "detail"}
    /\ q.method \in handler_methods(q.endpoint)
    /\ q.user = "vic" => q.method \in {"POST", "PUT", "PATCH", "DELETE"}
    /\ q.user = "ed" => q.method = "DELETE"

\* C20, the step: the step that answers 403 leaves the store as it was
C20_Step ==
    \A w \in Workers :
        (pc'[w] = "responded" /\ pc[w] # "responded" /\ resp'[w].status = 403) =>
            (items' = items /\ next_id' = next_id)

\* C20, the state: a viewer's write and an editor's delete are answered 403
\* and wrote no row
C20_State ==
    \A w \in Workers :
        (pc[w] = "responded" /\ DeniedWrite(request[w])) =>
            /\ resp[w].status = 403
            /\ ~resp[w].handler_ran
            /\ resp[w].written_groups = {}

\* C20: a request that ends in 403 leaves the item store unchanged
C20_DeniedLeavesStore == [][C20_Step /\ C20_State']_vars

\* an editor's DELETE of an existing asset of its group was answered 403
C20_Witness ==
    \E w \in Workers :
        /\ pc[w] = "responded"
        /\ request[w].user = "ed"
        /\ request[w].method = "DELETE"
        /\ request[w].endpoint = "detail"
        /\ items[request[w].id].group = "G1"
        /\ items[request[w].id].item_type = request[w].item_type
        /\ resp[w].status = 403

\* C21, the step: the begin of a request loads the user's row as it is then,
\* whatever the worker's context held; the check allows the request exactly
\* when the user loaded at its begin holds the permission the request needs;
\* and no step of the request up to its answer changes what was loaded
C21_Step ==
    \A w \in Workers :
        /\ (pc[w] = "idle" /\ pc'[w] = "begun" /\ request'[w].user # Anonymous) =>
               LET p == request'[w].user
               IN /\ ctx'[w].current_user.id = p
                  /\ ctx'[w].current_user.role = users[p].role
                  /\ ctx'[w].current_user.group = users[p].group
                  /\ ctx'[w].current_user.is_admin = users[p].is_admin
                  /\ ctx'[w].current_group = users[p].group
        /\ (pc[w] = "begun" /\ pc'[w] # "begun") =>
               LET u == ctx[w].current_user
                   allowed == /\ u.id # None
                              /\ \/ u.is_admin
                                 \/ /\ u.group # None
                                    /\ needed_permission(request'[w]) \in role_permissions(u.role)
               IN /\ pc'[w] = "authorized" <=> allowed
                  /\ pc'[w] # "authorized" =>
                         (pc'[w] = "responded" /\ resp'[w].status = 403 /\ ~resp'[w].handler_ran)
        /\ (pc[w] \in {"begun", "authorized"} /\ pc'[w] \in InFlight) => ctx'[w] = ctx[w]

\* C21: permission decisions are made afresh for each request from the role,
\* the group and the system-admin flag the user has at that request; after a
\* change of the row the next request on the same worker is decided by the
\* new values
C21_FreshDecision == [][C21_Step]_vars

\* vic, a viewer of G1 at the start, was made admin of G2 and a DELETE of
\* vic on the G2 liability passed the check
C21_Witness ==
    \E w \in Workers :
        /\ pc[w] = "authorized"
        /\ request[w].user = "vic"
        /\ request[w].method = "DELETE"
        /\ request[w].endpoint = "detail"
        /\ users["vic"].role = ADMIN
        /\ users["vic"].group = "G2"
        /\ ctx[w].current_group = "G2"

\* C22: no update changes an item's owning group: every stored item has a
\* group, and after a PUT or PATCH that reached an item, with any payload (one
\* that carries a group included), the item's group is the group it had
C22_GroupImmutable ==
    /\ \A i \in ItemIds : items[i] # NoItem => items[i].group \in Groups
    /\ \A w \in Workers :
           (pc[w] = "responded" /\ request[w].endpoint = "detail"
              /\ request[w].method \in {"PUT", "PATCH"} /\ resp[w].status \in {200, 400}) =>
               /\ items[request[w].id] # NoItem
               /\ resp[w].read_groups = {items[request[w].id].group}

\* a PUT of bob, admin of G2, stored a new value in an item of G2
C22_Witness ==
    \E w \in Workers :
        /\ pc[w] = "responded"
        /\ request[w].user = "bob"
        /\ request[w].method = "PUT"
        /\ resp[w].status = 200
        /\ items[request[w].id].group = "G2"
        /\ items[request[w].id].value = 2

\* C23: a list request returns exactly the items of the current group with
\* the requested type, counts them, and gives them newest-created first in
\* an order that two list requests over the same store share, also when items
\* share a creation time
C23_ListExactStable ==
    \A w \in Workers :
        LET g == ctx[w].current_group
            q == request[w]
            r == resp[w]
        IN (pc[w] = "responded" /\ q.endpoint = "collection" /\ q.method = "GET"
              /\ r.status = 200) =>
             /\ r.ids = owned_of_type(g, q.item_type)
             /\ r.count = Cardinality(owned_of_type(g, q.item_type))
             /\ {r.order[k] : k \in DOMAIN r.order} = r.ids
             /\ Len(r.order) = r.count
             /\ \A a, b \in DOMAIN r.order :
                    a < b => created_at[r.order[a]] >= created_at[r.order[b]]
             /\ \A v \in Workers :
                    (pc[v] = "responded" /\ request[v].endpoint = "collection"
                       /\ request[v].method = "GET" /\ resp[v].status = 200
                       /\ request[v].item_type = q.item_type /\ ctx[v].current_group = g) =>
                        resp[v].order = r.order

\* the contexts a summary of group g is computed in: a request bound to g,
\* and no request at all
SummaryContexts(g) == {EmptyContext, [current_user |-> NoUser, current_group |-> g]}

\* C24: in every store state the summary of a group g has total_assets the
\* sum of the values of g's assets, total_liabilities the sum of the values of
\* g's liabilities and net_worth their difference; items of other groups add
\* nothing; a group without items has 0, 0, 0 and no category entry; and the
\* summary endpoint answers with these numbers
C24_SummaryTotals ==
    /\ \A g \in Groups : \A c \in SummaryContexts(g) :
           LET data == get_summary(items, c, g)
               assets == {i \in ItemIds : items[i] # NoItem /\ items[i].group = g
                                            /\ items[i].item_type = "ASSET"}
               liabilities == {i \in ItemIds : items[i] # NoItem /\ items[i].group = g
                                                 /\ items[i].item_type = "LIABILITY"}
           IN /\ data.total_assets = SumValues(items, assets)
              /\ data.total_liabilities = SumValues(items, liabilities)
              /\ data.net_worth = data.total_assets - data.total_liabilities
              /\ {e.asset_category : e \in data.assets_by_category}
                     = {items[i].asset_category : i \in assets}
              /\ \A e \in data.assets_by_category :
                     /\ e.count = Cardinality({i \in assets : items[i].asset_category = e.asset_category})
                     /\ e.total_value
                            = SumValues(items, {i \in assets : items[i].asset_category = e.asset_category})
              /\ (assets \cup liabilities = {}) =>
                     /\ data.total_assets = 0
                     /\ data.total_liabilities = 0
                     /\ data.net_worth = 0
                     /\ data.assets_by_category = {}
    /\ \A w \in Workers :
           (pc[w] = "responded" /\ request[w].endpoint = "summary" /\ resp[w].status = 200) =>
               LET g == ctx[w].current_group
               IN /\ resp[w].total_assets = SumValues(items, owned_of_type(g, "ASSET"))
                  /\ resp[w].total_liabilities = SumValues(items, owned_of_type(g, "LIABILITY"))
                  /\ resp[w].net_worth = resp[w].total_assets - resp[w].total_liabilities
                  /\ owned(g) = {} => resp[w].assets_by_category = {}

\* the summary of G1 was answered with assets 2 and liabilities 0 while G2
\* holds an asset
C24_Witness ==
    \E w \in Workers :
        /\ pc[w] = "responded"
        /\ request[w].endpoint = "summary"
        /\ resp[w].status = 200
        /\ ctx[w].current_group = "G1"
        /\ resp[w].total_assets = 2
        /\ resp[w].net_worth = 2
        /\ \E i \in ItemIds : items[i] # NoItem /\ items[i].group = "G2" /\ items[i].item_type = "ASSET"

\* C25, the step: a step that deletes group g removes every item and every
\* invite link of g and leaves the rows of other groups; each user of g stays,
\* with no group, and without the system-admin flag holds no permission
C25_Step ==
    \A g \in groups \ groups' :
        /\ \A i \in ItemIds :
               items'[i] = IF items[i].group = g THEN NoItem ELSE items[i]
        /\ \A t \in InviteTokens :
               /\ invites[t].group = g => invites'[t].group = None
               /\ invites[t].group # g => invites'[t] = invites[t]
        /\ DOMAIN users' = DOMAIN users
        /\ \A u \in DOMAIN users :
               IF users[u].group = g
                  THEN /\ users'[u].group = None
                       /\ users'[u].role = users[u].role
                       /\ users'[u].is_admin = users[u].is_admin
                       /\ ~users'[u].is_admin =>
                              \A p \in Permissions : ~has_group_permission(users'[u], p)
               ELSE users'[u] = users[u]

\* C25, the state: no stored item, invite link or user refers to a group
\* that does not exist
C25_Integrity ==
    /\ \A i \in ItemIds : items[i] # NoItem => items[i].group \in groups
    /\ \A t \in InviteTokens : invites[t].group # None => invites[t].group \in groups
    /\ \A u \in DOMAIN users : users[u].group # None => users[u].group \in groups

\* C25: deleting a group removes its items and invite links and sets the
\* group of each of its users to none; afterwards a former member that is not
\* a system admin has no permission, and nothing stored refers to the group
C25_GroupDeleteCascade == [][C25_Step /\ C25_Integrity']_vars

\* G1 is deleted: its asset and an invite link of it are gone, and vic, a
\* viewer of G1 before, has no group and may not read
C25_Witness ==
    /\ "G1" \notin groups
    /\ items[1] = NoItem
    /\ \E t \in InviteTokens : invites[t] = GoneInvite
    /\ users["vic"].group = None
    /\ ~has_group_permission(users["vic"], "read")

\* a registration request that has been answered
Answered(w) == reg[w].pc = "done" /\ reg[w].view = "register_view"

\* C26: an invite link admits at most one registration: a registration that
\* joined through a token left the user in the link's group and the link used;
\* one whose token was used or unknown joined no group; and of the
\* registrations that carry the same token at most one joined
C26_InviteOnce ==
    /\ \A w \in Workers :
           (Answered(w) /\ reg[w].invite_token # NoToken /\ reg[w].joined # None) =>
               /\ reg[w].username \in DOMAIN users
               /\ users[reg[w].username].group = invites[reg[w].invite_token].group
               /\ invites[reg[w].invite_token].is_used
    /\ \A w \in Workers :
           (Answered(w) /\ reg[w].invite_token # NoToken /\ reg[w].group_to_join = None) =>
               /\ reg[w].joined = None
               /\ reg[w].status = 302
    /\ \A w, v \in Workers :
           (w # v /\ Answered(w) /\ Answered(v)
              /\ reg[w].invite_token # NoToken /\ reg[w].invite_token = reg[v].invite_token) =>
               ~(reg[w].joined # None /\ reg[v].joined # None)

\* C29, the step: the save of a user registered without a token puts the user
\* in a group that had no member and was not there at the start, as its only
\* member, a viewer without the system-admin flag, who holds read and nothing
\* else
C29_Step ==
    \A w \in Workers :
        (reg[w].pc = "group_set" /\ reg'[w].pc = "done" /\ reg'[w].status = 302
           /\ reg'[w].invite_token = NoToken) =>
            LET n == reg'[w].username
                g == reg'[w].joined
            IN /\ n \notin DOMAIN users
               /\ n \in DOMAIN users'
               /\ users'[n].group = g
               /\ g \in groups' \ Groups
               /\ \A u \in DOMAIN users : users[u].group # g
               /\ {u \in DOMAIN users' : users'[u].group = g} = {n}
               /\ users'[n].role = "viewer"
               /\ ~users'[n].is_admin
               /\ has_group_permission(users'[n], "read")
               /\ \A p \in {"create", "update", "delete", "manage_users"} :
                      ~has_group_permission(users'[n], p)

\* C29: a user who registers without an invite token ends in a new group as
\* its only member, with the role viewer and no system-admin flag, holding the
\* read permission only
C29_NewGroupViewer == [][C29_Step]_vars

\* newuser registered without a token and is the viewer of the new group G3
C29_Witness ==
    \E w \in Workers :
        /\ Answered(w)
        /\ reg[w].invite_token = NoToken
        /\ reg[w].username = "newuser"
        /\ reg[w].joined = "G3"
        /\ "newuser" \in DOMAIN users
        /\ users["newuser"] = [group |-> "G3", role |-> VIEWER, is_admin |-> FALSE]

\* C30, the step: a POST of create_invite_link by a user that has a group
\* creates one unused link of that group with the caller as creator, whatever
\* the role; any other call creates none
C30_Step ==
    \A w \in Workers :
        (reg[w].pc = "idle" /\ reg'[w].pc = "done" /\ reg'[w].view = "create_invite_link") =>
            LET r == reg'[w]
                p == r.principal
            IN IF p # Anonymous /\ users[p].group # None /\ r.method = "POST"
                  THEN /\ r.link \in InviteTokens
                       /\ invites[r.link] = NoInvite
                       /\ invites'[r.link] = [group |-> users[p].group, is_used |-> FALSE,
                                               created_by |-> p]
                       /\ \A t \in InviteTokens \ {r.link} : invites'[t] = invites[t]
               ELSE /\ r.link = NoToken
                    /\ invites' = invites

C28_State ==
    \A w \in Workers :
        /\ ctx[w].current_user.id = None => ctx[w] = EmptyContext
        /\ ctx[w].current_user.id # None => ctx[w].current_group = ctx[w].current_user.group
        /\ ~(ctx[w].current_group # None /\ ctx[w].current_user.id = None)

\* C28, the step: a call leaves the context empty or holding a user and the
\* group that user's row has at the call; an edit of the row leaves the
\* context as it is
C28_Step ==
    \A w \in Workers :
        /\ ctx'[w] # ctx[w] =>
               \/ ctx'[w] = EmptyContext
               \/ \E u \in DOMAIN users :
                     /\ ctx'[w].current_user.id = u
                     /\ ctx'[w].current_group = users[u].group
        /\ users' # users => ctx'[w] = ctx[w]

\* C28: after any sequence of set_current_user and clear calls on a worker
\* the user and the group of the context are set and cleared together; the
\* group is the one the user had when set_current_user was called
C28_UserAndGroupTogether == [][C28_Step /\ C28_State']_vars

\* the context holds vic with group G1, set before vic's row moved to G2
C28_Witness ==
    \E w \in Workers :
        /\ ctx[w].current_user.id = "vic"
        /\ ctx[w].current_group = "G1"
        /\ users["vic"].group = "G2"

====
